---- MODULE Spec2Model ----
(***************************************************************************)
(* Model of the bc1q vanity address generator (src/src/main.rs): the       *)
(* matcher check_address, the worker closure spawned once per rayon thread *)
(* and the orchestration in main.  Every mutex of the program (found,      *)
(* stats, last_stats_print) is a lock variable holding its owner; every    *)
(* lock(), the work done under the guard and the drop of the guard are     *)
(* steps of the worker that executes them.                                 *)
(***************************************************************************)
EXTENDS Integers, Sequences, FiniteSets, TLC

(* ------------------------------ bounds -------------------------------- *)
\* hardware parallelism rayon picks when no explicit thread count applies
NumCPUs == 2
\* batches the workers may start in total before the exploration stops
MaxBatches == 2
\* the batch size of the worker loop, scaled down from the program's 1000
BatchBound == 2
\* seconds the clock may advance
MaxTime == 1

(* ------------------------------ options ------------------------------- *)
None == <<>>
Some(x) == <<x>>
is_none(o) == o = None
is_some(o) == o # None
unwrap(o) == o[1]

(* ------------------------------ strings ------------------------------- *)
\* a string is the sequence of its characters; a character outside ASCII is
\* written as its code point
UpperCase == <<"A","B","C","D","E","F","G","H","I","J","K","L","M",
               "N","O","P","Q","R","S","T","U","V","W","X","Y","Z">>
LowerCase == <<"a","b","c","d","e","f","g","h","i","j","k","l","m",
               "n","o","p","q","r","s","t","u","v","w","x","y","z">>

\* GREEK CAPITAL LETTER SIGMA, the one letter whose lower case in a string
\* depends on its place in the word: SMALL SIGMA, or FINAL SIGMA at the end
CapitalSigma == "U+03A3"
SmallSigma == "U+03C3"
FinalSigma == "U+03C2"

\* the letters outside ASCII the model carries, with their Unicode lower case:
\* KELVIN SIGN, E WITH ACUTE, I WITH DOT ABOVE (whose lower case is two
\* characters, i and COMBINING DOT ABOVE), CAPITAL SIGMA
UnicodeLower == { << "U+212A", <<"k">> >>,
                  << "U+00C9", <<"U+00E9">> >>,
                  << "U+0130", <<"i", "U+0307">> >>,
                  << CapitalSigma, << SmallSigma >> >> }

\* the Unicode properties Cased and Case_Ignorable, on the model's characters
Cased ==
    { UpperCase[k] : k \in 1..Len(UpperCase) } \cup { LowerCase[k] : k \in 1..Len(LowerCase) }
        \cup { "U+212A", "U+00C9", "U+00E9", "U+0130", CapitalSigma, SmallSigma, FinalSigma }
Case_Ignorable == { "'", ".", ":", "^", "U+0060", "U+0307" }

\* char::to_lowercase: the lower case of one character, one or more characters
char_to_lowercase(c) ==
    IF \E k \in 1..Len(UpperCase) : UpperCase[k] = c
    THEN << LowerCase[CHOOSE k \in 1..Len(UpperCase) : UpperCase[k] = c] >>
    ELSE IF \E e \in UnicodeLower : e[1] = c
         THEN (CHOOSE e \in UnicodeLower : e[1] = c)[2]
         ELSE << c >>

\* the first character that is not Case_Ignorable exists and is Cased
case_ignorable_then_cased(iter) ==
    LET rest == { k \in 1..Len(iter) : iter[k] \notin Case_Ignorable }
    IN  /\ rest # {}
        /\ iter[CHOOSE k \in rest : \A j \in rest : k <= j] \in Cased

\* the lower case of the capital sigma at position k of the string
map_uppercase_sigma(from, k) ==
    LET before == [j \in 1..(k - 1) |-> from[k - j]]
        after == SubSeq(from, k + 1, Len(from))
        is_word_final == /\ case_ignorable_then_cased(before)
                         /\ ~ case_ignorable_then_cased(after)
    IN  IF is_word_final THEN << FinalSigma >> ELSE << SmallSigma >>

RECURSIVE push_all(_)
push_all(pieces) ==
    IF pieces = <<>> THEN <<>> ELSE Head(pieces) \o push_all(Tail(pieces))

\* a pattern used as it was typed
to_lowercase_identity(s) == s

\* String::to_lowercase: character by character, the result may be longer
to_lowercase(s) ==
    push_all([k \in 1..Len(s) |->
                 IF s[k] = CapitalSigma THEN map_uppercase_sigma(s, k)
                                        ELSE char_to_lowercase(s[k])])

starts_with(s, p) == Len(p) <= Len(s) /\ SubSeq(s, 1, Len(p)) = p

ends_with(s, p) == Len(p) <= Len(s) /\ SubSeq(s, Len(s) - Len(p) + 1, Len(s)) = p

Tag == <<"b","c","1","q">>

(* ------------------------------ matcher ------------------------------- *)
\* a matcher without the test of the length and the tag
check_address_unguarded(address, prefix_pattern, suffix_pattern) ==
    LET prefix_match == starts_with(SubSeq(address, 5, Len(address)), prefix_pattern)
    IN  IF is_some(suffix_pattern)
        THEN prefix_match /\ ends_with(address, unwrap(suffix_pattern))
        ELSE prefix_match

\* a matcher content with either of the two patterns
check_address_either(address, prefix_pattern, suffix_pattern) ==
    IF Len(address) <= 4 \/ ~starts_with(address, Tag)
    THEN FALSE
    ELSE LET prefix_match == starts_with(SubSeq(address, 5, Len(address)), prefix_pattern)
         IN  IF is_some(suffix_pattern)
             THEN prefix_match \/ ends_with(address, unwrap(suffix_pattern))
             ELSE prefix_match

check_address(address, prefix_pattern, suffix_pattern) ==
    IF Len(address) <= 4 \/ ~starts_with(address, Tag)
    THEN FALSE
    ELSE LET prefix_match == starts_with(SubSeq(address, 5, Len(address)), prefix_pattern)
         IN  IF is_some(suffix_pattern)
             THEN prefix_match /\ ends_with(address, unwrap(suffix_pattern))
             ELSE prefix_match

(* --------------------------- candidate oracle -------------------------- *)
\* secret keys are byte strings; the oracle draws one at random
Keys == { <<10>>, <<171>> }

\* the P2WPKH address of a key, always lower case bech32 starting with bc1q
AddressOf(key) ==
    IF key = <<10>> THEN <<"b","c","1","q","a","z">>
                    ELSE <<"b","c","1","q","z","y">>

generate_p2wpkh_address == { <<key, AddressOf(key)>> : key \in Keys }

HexDigits == <<"0","1","2","3","4","5","6","7","8","9","a","b","c","d","e","f">>

\* display form of a secret key: two lower case hex digits per byte
display_secret(key) ==
    [k \in 1..(2 * Len(key)) |->
        IF k % 2 = 1 THEN HexDigits[(key[(k + 1) \div 2] \div 16) + 1]
                     ELSE HexDigits[(key[k \div 2] % 16) + 1]]

(* ---------------------------- configuration --------------------------- *)
PatternArgs == { <<>>, <<"A">> }
SuffixArgs == { None, Some(<<"Y">>) }
ThreadsArgs == { Some(0), Some(1) }
StatsIntervalArgs == { 0, 1 }

ArgsSet == [ pattern : PatternArgs, suffix : SuffixArgs,
             threads : ThreadsArgs, stats_interval : StatsIntervalArgs ]

VARIABLES
    args,              \* the parsed command line
    found,             \* Mutex<Option<(String, String)>>: the match slot
    attempts,          \* stats.attempts
    last_stats_print,  \* Mutex<Instant>: time of the last stats emission
    now,               \* the monotonic clock, in seconds since the start
    foundLock,         \* owner of the found mutex, or Free
    statsLock,         \* owner of the stats mutex, or Free
    lastPrintLock,     \* owner of the last_stats_print mutex, or Free
    pc,                \* position of every worker
    i,                 \* candidates the worker evaluated in its current batch
    result,            \* the (private_key, address) a worker is about to publish
    loaded,            \* value of stats.attempts a worker read for its +=
    mpc,               \* position of main
    thread_id,         \* loop variable of the spawn loop in main
    main_result,       \* the clone of the slot main took at line 173
    report,            \* the final report main printed, if any
    printed,           \* number of periodic stats lines emitted
    started,           \* history: batches started by all workers
    completed,         \* history: batches the workers left (loop end or break)
    evaluated,         \* history: candidates generated and checked
    increments,        \* history: completed calls of Stats::increment
    matched,           \* history: (private_key, address) pairs that passed the matcher
    published,         \* history: publish attempts of every worker
    probe              \* an address handed to the matcher on its own, and the answers

vars == << args, found, attempts, last_stats_print, now, foundLock, statsLock,
           lastPrintLock, pc, i, result, loaded, mpc, thread_id, main_result,
           report, printed, started, completed, evaluated, increments, matched,
           published, probe >>

shared == << found, attempts, last_stats_print >>
locks == << foundLock, statsLock, lastPrintLock >>
history == << started, completed, evaluated, increments, matched, published >>
mainvars == << mpc, thread_id, main_result, report >>

Free == -1

prefix_pattern == to_lowercase(args.pattern)
suffix_pattern == IF is_some(args.suffix) THEN Some(to_lowercase(unwrap(args.suffix))) ELSE None
stats_interval == args.stats_interval
batch_size == BatchBound

\* rayon: num_threads(0), like no call at all, lets the runtime choose
current_num_threads ==
    IF is_none(args.threads) \/ args.threads = Some(0)
    THEN NumCPUs
    ELSE unwrap(args.threads)

Workers == 0..(current_num_threads - 1)

\* no configuration explored asks for more threads than the machine has
MaxWorkers == NumCPUs

\* no address is handed to the matcher outside the worker loop
NoProbe == [ address |-> <<>>, direct |-> None, seen |-> None ]

\* lines 115-119 and the state of the threads before rayon::scope
Idle ==
    /\ found = None
    /\ attempts = 0
    /\ last_stats_print = 0
    /\ now = 0
    /\ foundLock = Free
    /\ statsLock = Free
    /\ lastPrintLock = Free
    /\ pc = [w \in Workers |-> "unspawned"]
    /\ i = [w \in Workers |-> 0]
    /\ result = [w \in Workers |-> None]
    /\ loaded = [w \in Workers |-> 0]
    /\ mpc = "spawn"
    /\ thread_id = 0
    /\ main_result = None
    /\ report = None
    /\ printed = 0
    /\ started = 0
    /\ completed = 0
    /\ evaluated = 0
    /\ increments = 0
    /\ matched = {}
    /\ published = [w \in Workers |-> 0]

Init ==
    /\ args \in ArgsSet
    /\ probe = NoProbe
    /\ Idle

(* ------------------------------- mutexes ------------------------------ *)
\* a lock that excludes nobody
can_lock_unguarded(owner) == TRUE

\* Mutex::lock returns only when no guard of the mutex is alive
can_lock(owner) == owner = Free

(* ------------------------------- Stats -------------------------------- *)
increment(self_attempts, count) == self_attempts + count

\* Stats::print emits a line only when at least one full second has elapsed
print_emits(started_at, clock) == (clock - started_at) > 0

elapsed(instant, clock) == clock - instant

(* ------------------------------- worker ------------------------------- *)
\* line 134, while found.lock(): take the found mutex for the loop condition
WhileLock(w) ==
    /\ pc[w] = "while"
    /\ can_lock(foundLock)
    /\ started < MaxBatches \/ is_some(found)
    /\ foundLock' = w
    /\ pc' = [pc EXCEPT ![w] = "while_check"]
    /\ UNCHANGED << args, probe, shared, now, statsLock, lastPrintLock, i, result, loaded,
                    mainvars, printed, history >>

\* a loop that never looks at the slot before a batch
keep_searching_always(slot) == TRUE

\* the condition of the while loop at line 134
keep_searching(slot) == is_none(slot)

\* line 134, .is_none(): decide under the guard and drop it; enter the batch, or
\* leave the loop, print "Thread {} finished" (line 167) and return
WhileCheck(w) ==
    /\ pc[w] = "while_check"
    /\ foundLock' = Free
    /\ IF keep_searching(found)
       THEN /\ pc' = [pc EXCEPT ![w] = "batch"]
            /\ i' = [i EXCEPT ![w] = 0]
            /\ started' = started + 1
       ELSE /\ pc' = [pc EXCEPT ![w] = "finished"]
            /\ UNCHANGED << i, started >>
    /\ UNCHANGED << args, probe, shared, now, statsLock, lastPrintLock, result, loaded,
                    mainvars, printed, completed, evaluated,
                    increments, matched, published >>

\* lines 136-142: one iteration of the batch: generate a candidate, check it;
\* a candidate that fails the matcher ends the iteration, and the batch with
\* it when it was the last of batch_size
Evaluate(w) ==
    /\ pc[w] = "batch"
    /\ \E c \in generate_p2wpkh_address :
          LET key_pair == c[1]
              address == c[2]
          IN  /\ i' = [i EXCEPT ![w] = i[w] + 1]
              /\ evaluated' = evaluated + 1
              /\ IF check_address(address, prefix_pattern, suffix_pattern)
                 THEN LET private_key == display_secret(key_pair)
                      IN  /\ result' = [result EXCEPT ![w] = Some(<<private_key, address>>)]
                          /\ matched' = matched \cup { <<private_key, address>> }
                          /\ pc' = [pc EXCEPT ![w] = "publish"]
                          /\ UNCHANGED completed
                 ELSE /\ UNCHANGED << result, matched >>
                      /\ IF i[w] + 1 = batch_size
                         THEN /\ pc' = [pc EXCEPT ![w] = "stats"]
                              /\ completed' = completed + 1
                         ELSE UNCHANGED << pc, completed >>
    /\ UNCHANGED << args, probe, shared, now, locks, loaded, mainvars,
                    printed, started, increments, published >>

\* line 143: found.lock() for the publish
PublishLock(w) ==
    /\ pc[w] = "publish"
    /\ can_lock(foundLock)
    /\ foundLock' = w
    /\ pc' = [pc EXCEPT ![w] = "publish_write"]
    /\ UNCHANGED << args, probe, shared, now, statsLock, lastPrintLock, i, result, loaded,
                    mainvars, printed, history >>

\* a publish that forgets the store
publish_dropped(slot, res) == slot

\* the slot after line 144, *found_guard = Some(result)
publish(slot, res) == Some(res)

\* a publish that goes on with the rest of the batch
break_missing(count) == IF count < batch_size THEN "batch" ELSE "stats"

\* line 145, break: the batch ends after count candidates, the stats update is next
break(count) == "stats"

\* lines 144-145: write the slot, break out of the batch (the guard drops)
PublishWrite(w) ==
    /\ pc[w] = "publish_write"
    /\ found' = publish(found, unwrap(result[w]))
    /\ foundLock' = Free
    /\ result' = [result EXCEPT ![w] = None]
    /\ completed' = completed + 1
    /\ published' = [published EXCEPT ![w] = published[w] + 1]
    /\ pc' = [pc EXCEPT ![w] = break(i[w])]
    /\ UNCHANGED << args, probe, attempts, last_stats_print, now, statsLock, lastPrintLock,
                    i, loaded, mainvars, printed, started, evaluated,
                    increments, matched >>

\* line 150: stats.lock(); line 151 starts by reading self.attempts
StatsLock(w) ==
    /\ pc[w] = "stats"
    /\ can_lock(statsLock)
    /\ statsLock' = w
    /\ loaded' = [loaded EXCEPT ![w] = attempts]
    /\ pc' = [pc EXCEPT ![w] = "stats_increment"]
    /\ UNCHANGED << args, probe, shared, now, foundLock, lastPrintLock, i, result,
                    mainvars, printed, history >>

\* counting only the candidates the batch evaluated
increment_count_evaluated(in_batch) == in_batch

\* the count line 151 passes to Stats::increment
increment_count(in_batch) == batch_size

\* lines 151-152: self.attempts += count, then drop(stats_guard)
StatsIncrement(w) ==
    /\ pc[w] = "stats_increment"
    /\ attempts' = increment(loaded[w], increment_count(i[w]))
    /\ statsLock' = Free
    /\ loaded' = [loaded EXCEPT ![w] = 0]
    /\ increments' = increments + 1
    /\ pc' = [pc EXCEPT ![w] = "last_print"]
    /\ UNCHANGED << args, probe, found, last_stats_print, now, foundLock, lastPrintLock,
                    i, result, mainvars, printed, started, completed,
                    evaluated, matched, published >>

\* line 155: last_stats_print.lock(), the guard is bound to last_print
LastPrintLock(w) ==
    /\ pc[w] = "last_print"
    /\ can_lock(lastPrintLock)
    /\ lastPrintLock' = w
    /\ pc' = [pc EXCEPT ![w] = "interval_test"]
    /\ UNCHANGED << args, probe, shared, now, foundLock, statsLock, i, result, loaded,
                    mainvars, printed, history >>

\* line 156: last_print.elapsed() >= stats_interval, on the clock of this moment
IntervalTest(w) ==
    /\ pc[w] = "interval_test"
    /\ pc' = [pc EXCEPT ![w] = IF elapsed(last_stats_print, now) >= stats_interval
                                THEN "print" ELSE "tail"]
    /\ UNCHANGED << args, probe, shared, now, locks, i, result, loaded,
                    mainvars, printed, history >>

\* line 157: stats.lock() for the print, while last_print is held
PrintLock(w) ==
    /\ pc[w] = "print"
    /\ can_lock(statsLock)
    /\ statsLock' = w
    /\ pc' = [pc EXCEPT ![w] = "print_write"]
    /\ UNCHANGED << args, probe, shared, now, foundLock, lastPrintLock, i, result, loaded,
                    mainvars, printed, history >>

\* line 157, lines 48-57: Stats::print reads the clock and emits its line
PrintWrite(w) ==
    /\ pc[w] = "print_write"
    /\ printed' = IF print_emits(0, now) THEN printed + 1 ELSE printed
    /\ pc' = [pc EXCEPT ![w] = "print_drop"]
    /\ UNCHANGED << args, probe, shared, now, locks, i, result, loaded,
                    mainvars, history >>

\* line 157, end of the statement: the temporary stats guard drops
PrintDrop(w) ==
    /\ pc[w] = "print_drop"
    /\ statsLock' = Free
    /\ pc' = [pc EXCEPT ![w] = "reset"]
    /\ UNCHANGED << args, probe, shared, now, foundLock, lastPrintLock, i, result, loaded,
                    mainvars, printed, history >>

\* line 158: *last_print = Instant::now()
Reset(w) ==
    /\ pc[w] = "reset"
    /\ last_stats_print' = now
    /\ pc' = [pc EXCEPT ![w] = "tail"]
    /\ UNCHANGED << args, probe, found, attempts, now, locks, i, result, loaded,
                    mainvars, printed, history >>

\* line 162: found.lock() for the check at the end of the iteration
TailLock(w) ==
    /\ pc[w] = "tail"
    /\ can_lock(foundLock)
    /\ foundLock' = w
    /\ pc' = [pc EXCEPT ![w] = "tail_check"]
    /\ UNCHANGED << args, probe, shared, now, statsLock, lastPrintLock, i, result, loaded,
                    mainvars, printed, history >>

\* a break on the empty slot
should_stop_inverted(slot) == is_none(slot)

\* a break after every batch
should_stop_always(slot) == TRUE

\* the condition of the break at line 162
should_stop(slot) == is_some(slot)

\* a guard that outlives the iteration
drop_last_print_leaked(owner) == owner

\* the last_stats_print mutex after the guard of line 155 went out of scope
drop_last_print(owner) == Free

\* line 162: .is_some(); the temporary found guard drops at the end of the
\* condition, last_print is still held; break or go on to the end of the body
TailCheck(w) ==
    /\ pc[w] = "tail_check"
    /\ foundLock' = Free
    /\ pc' = [pc EXCEPT ![w] = IF should_stop(found) THEN "break" ELSE "loop_end"]
    /\ UNCHANGED << args, probe, shared, now, statsLock, lastPrintLock, i, result,
                    loaded, mainvars, printed, history >>

\* lines 163-167: the scope of last_print ends, by the break or at the end of
\* the loop body, and its guard drops; after the break the worker prints
\* "Thread {} finished" and returns, otherwise it is back at the condition
IterationEnd(w) ==
    /\ pc[w] \in { "break", "loop_end" }
    /\ lastPrintLock' = drop_last_print(lastPrintLock)
    /\ pc' = [pc EXCEPT ![w] = IF pc[w] = "break" THEN "finished" ELSE "while"]
    /\ UNCHANGED << args, probe, shared, now, foundLock, statsLock, i, result,
                    loaded, mainvars, printed, history >>

Worker(w) ==
    /\ w \in Workers
    /\ \/ WhileLock(w) \/ WhileCheck(w) \/ Evaluate(w)
       \/ PublishLock(w) \/ PublishWrite(w)
       \/ StatsLock(w) \/ StatsIncrement(w)
       \/ LastPrintLock(w) \/ IntervalTest(w)
       \/ PrintLock(w) \/ PrintWrite(w) \/ PrintDrop(w) \/ Reset(w)
       \/ TailLock(w) \/ TailCheck(w) \/ IterationEnd(w)

(* -------------------------------- main -------------------------------- *)
\* lines 123-169: one s.spawn per thread of the pool; a spawned worker may run
\* while the later ones are still being spawned
Spawn ==
    /\ mpc = "spawn"
    /\ IF thread_id < current_num_threads
       THEN /\ pc' = [pc EXCEPT ![thread_id] = "while"]
            /\ thread_id' = thread_id + 1
            /\ UNCHANGED mpc
       ELSE /\ mpc' = "scope_wait"
            /\ UNCHANGED << pc, thread_id >>
    /\ UNCHANGED << args, probe, shared, now, locks, i, result, loaded, main_result,
                    report, printed, history >>

\* a scope that returns with the first closure that does
scope_returns_early(positions) == \E w \in DOMAIN positions : positions[w] = "finished"

\* line 170: rayon::scope returns when every spawned closure has returned
scope_returns(positions) == \A w \in DOMAIN positions : positions[w] = "finished"

ScopeEnd ==
    /\ mpc = "scope_wait"
    /\ scope_returns(pc)
    /\ mpc' = "read_found"
    /\ UNCHANGED << args, probe, shared, now, locks, pc, i, result, loaded, thread_id,
                    main_result, report, printed, history >>

\* taking the value out of the slot
after_take(slot) == None

\* the slot after line 173, found.lock().unwrap().clone()
after_clone(slot) == slot

\* lines 173-174: clone the slot under its lock; nothing more happens for None
ReadFound ==
    /\ mpc = "read_found"
    /\ can_lock(foundLock)
    /\ main_result' = found
    /\ found' = after_clone(found)
    /\ mpc' = IF is_some(found) THEN "read_stats" ELSE "done"
    /\ UNCHANGED << args, probe, attempts, last_stats_print, now, locks, pc, i, result,
                    loaded, thread_id, report, printed, history >>

\* lines 175-180: stats.lock().unwrap().attempts and the final report
Report ==
    /\ mpc = "read_stats"
    /\ can_lock(statsLock)
    /\ report' = Some([ attempts |-> attempts,
                        address |-> unwrap(main_result)[2],
                        private_key |-> unwrap(main_result)[1] ])
    /\ mpc' = "done"
    /\ UNCHANGED << args, probe, shared, now, locks, pc, i, result, loaded, thread_id,
                    main_result, printed, history >>

Main == Spawn \/ ScopeEnd \/ ReadFound \/ Report

(* -------------------------------- clock ------------------------------- *)
Tick ==
    /\ now < MaxTime
    /\ now' = now + 1
    /\ UNCHANGED << args, probe, shared, locks, pc, i, result, loaded, mainvars,
                    printed, history >>

Next ==
    \/ Spawn \/ ScopeEnd \/ ReadFound \/ Report
    \/ Tick
    \/ \E w \in Workers : WhileLock(w)
    \/ \E w \in Workers : WhileCheck(w)
    \/ \E w \in Workers : Evaluate(w)
    \/ \E w \in Workers : PublishLock(w)
    \/ \E w \in Workers : PublishWrite(w)
    \/ \E w \in Workers : StatsLock(w)
    \/ \E w \in Workers : StatsIncrement(w)
    \/ \E w \in Workers : LastPrintLock(w)
    \/ \E w \in Workers : IntervalTest(w)
    \/ \E w \in Workers : PrintLock(w)
    \/ \E w \in Workers : PrintWrite(w)
    \/ \E w \in Workers : PrintDrop(w)
    \/ \E w \in Workers : Reset(w)
    \/ \E w \in Workers : TailLock(w)
    \/ \E w \in Workers : TailCheck(w)
    \/ \E w \in Workers : IterationEnd(w)

Spec == Init /\ [][Next]_vars

\* Termination is only expected for a pattern that every candidate satisfies:
\* the fair runs start from the configurations with such a pattern.  Every
\* thread of the pool and the main thread keep being scheduled while they can
\* take a step.
FairInit == Init /\ \A c \in generate_p2wpkh_address :
                        check_address(c[2], prefix_pattern, suffix_pattern)

FairSpec ==
    /\ FairInit
    /\ [][Next]_vars
    /\ WF_vars(Main)
    /\ \A w \in 0..(MaxWorkers - 1) : WF_vars(Worker(w))

(* --------------------------- the matcher alone ------------------------- *)
\* check_address is a pure function: it is also explored on its own, on
\* addresses and patterns of either letter case, with and without the tag,
\* and on patterns with letters outside ASCII
ProbeHeads == { <<>>, <<"b","c","1">>, <<"b","c","1","q">>, <<"B","C","1","Q">>,
                <<"b","c","1","p">>, <<"x","c","1","q">> }
ProbeTails == { <<>>, <<"a">>, <<"a","z">>, <<"z","y">>, <<"A","z">>, <<"y","a">>, <<"k">> }
ProbeAddresses == { h \o t : h \in ProbeHeads, t \in ProbeTails }
ProbePatterns == { <<>>, <<"a">>, <<"A">>, <<"a","z">>, <<"A","Z">>, <<"z">>, <<"q">>,
                   <<"U+212A">>, <<"U+00C9">>, <<"U+0130">>,
                   <<"A","U+03A3">>, <<"U+03A3","a">> }
ProbeSuffixes == { None } \cup { Some(x) : x \in { <<>>, <<"z">>, <<"Z">>, <<"y">>,
                                                   <<"a","z">>, <<"q","a","z">>,
                                                   <<"U+212A">> } }

MatcherInit ==
    /\ args \in [ pattern : ProbePatterns, suffix : ProbeSuffixes,
                   threads : { Some(1) }, stats_interval : { 1 } ]
    /\ probe \in { [ address |-> a, direct |-> None, seen |-> None ] :
                      a \in ProbeAddresses }
    /\ Idle

\* lines 73-90: check_address on the address and the patterns as they are
ProbeCheck ==
    /\ is_none(probe.direct)
    /\ probe' = [probe EXCEPT !.direct =
                    Some(check_address(probe.address, args.pattern, args.suffix))]
    /\ UNCHANGED << args, shared, now, locks, pc, i, result, loaded, mainvars,
                    printed, history >>

\* the answer a worker gets for an address and the patterns of the command
\* line: lines 96-97 lower-case the patterns, line 139 calls check_address
matcher_call(address, pattern_arg, suffix_arg) ==
    check_address(address, to_lowercase(pattern_arg),
                  IF is_some(suffix_arg) THEN Some(to_lowercase(unwrap(suffix_arg)))
                                         ELSE None)

\* line 139: the call of the worker, on the patterns main prepared
ProbeWorker ==
    /\ is_none(probe.seen)
    /\ probe' = [probe EXCEPT !.seen =
                    Some(check_address(probe.address, prefix_pattern, suffix_pattern))]
    /\ UNCHANGED << args, shared, now, locks, pc, i, result, loaded, mainvars,
                    printed, history >>

MatcherNext == ProbeCheck \/ ProbeWorker

MatcherSpec == MatcherInit /\ [][MatcherNext]_vars

(* ------------------------------ properties ---------------------------- *)
AllFinished == \A w \in Workers : pc[w] = "finished"

Matches(c) == check_address(c[2], prefix_pattern, suffix_pattern)
AllMatch == \A c \in generate_p2wpkh_address : Matches(c)
NoMatch == \A c \in generate_p2wpkh_address : ~Matches(c)

PostScope == { "read_found", "read_stats", "done" }

\* C1: first write wins: once the match slot is written its value never
\* changes, so a publish that finds the slot occupied leaves it as it is.
\* The code stores unconditionally at line 144, so this does not hold.
C1_FirstWriteWins == [][is_some(found) => found' = found]_vars

\* C2: the slot only ever holds the (private key, address) pair of a candidate
\* that a worker generated and the matcher accepted, and once every worker has
\* exited the slot holds such a pair.
C2_MatchResultIsMatch ==
    /\ is_some(found) =>
          /\ unwrap(found) \in matched
          /\ check_address(unwrap(found)[2], prefix_pattern, suffix_pattern)
          /\ \E key \in Keys : unwrap(found) = << display_secret(key), AddressOf(key) >>
    /\ AllFinished => is_some(found)

C2_Witness == AllFinished /\ is_some(found) /\ Cardinality(matched) = 2

\* C3: with a pattern every candidate satisfies and fair scheduling, every
\* worker eventually leaves its loop and main reaches the final report.
C3_Termination == AllMatch ~> (AllFinished /\ mpc = "done" /\ is_some(report))

C3_Witness ==
    AllMatch /\ AllFinished /\ mpc = "done" /\ is_some(report) /\ Cardinality(Workers) >= 2

\* the positions of a worker that has left its loop
Left == { "break", "finished" }

\* C4: a worker enters a batch only from a check that saw the slot empty, and
\* a check that sees the slot set ends the worker; so after the first publish
\* a worker finishes at most the batch it is in, at most batch_size candidates.
C4_BoundedShutdown ==
    [][\A w \in Workers :
          /\ (pc[w] # "batch" /\ pc'[w] = "batch") => is_none(found)
          /\ (is_some(found) /\ pc[w] \in { "while_check", "tail_check" } /\ pc'[w] # pc[w])
                => pc'[w] \in Left
          /\ (pc[w] = "break" /\ pc'[w] # pc[w]) => pc'[w] = "finished"
          /\ i'[w] <= batch_size]_vars

C4_Witness == \E w \in Workers : is_some(found) /\ pc[w] = "batch" /\ i[w] = 1

\* C5: no worker leaves its loop while the slot is empty; with a pattern no
\* candidate satisfies no worker finishes, the slot stays empty and main never
\* gets past the scope.
C5_NoExitWhileEmpty ==
    /\ \A w \in Workers : pc[w] \in Left => is_some(found)
    /\ NoMatch => /\ is_none(found)
                  /\ \A w \in Workers : pc[w] \notin Left
                  /\ mpc \notin PostScope

C5_Witness == NoMatch /\ completed >= 2 /\ \E w \in Workers : pc[w] = "while"

\* C6: the termination signal is monotonic: a slot that is set is never empty
\* again.
C6_SignalMonotonic == [][is_some(found) => is_some(found')]_vars

C6_Witness == is_some(found) /\ \E w \in Workers : pc[w] = "publish_write"

\* C7: after each batch the worker adds the number of candidates it evaluated
\* in it, so the counter never exceeds the number of candidates evaluated.
\* The code adds batch_size also after a batch a match cut short.
C7_CounterCountsEvaluated == attempts <= evaluated

\* C8: the counter never decreases and no increment is lost: it always is the
\* sum of the counts of the increments made so far.
C8_CounterMonotonic ==
    [][attempts' >= attempts /\ attempts' = increments' * batch_size]_vars

C8_Witness ==
    \E w1, w2 \in Workers :
        /\ pc[w1] = "stats_increment"
        /\ pc[w2] = "stats"

\* C9: the attempts figure of the final report is at least batch_size times the
\* number of batches the workers went through (a batch a match cut short
\* included).
C9_FinalCounter ==
    (mpc = "done" /\ is_some(report)) =>
        unwrap(report).attempts >= completed * batch_size

C9_Witness == mpc = "done" /\ is_some(report) /\ completed >= 2

\* C10: main reads the slot and the counter only after every worker has left
\* its loop; the slot is set then, no worker changes anything afterwards, and
\* the run goes from running (1) over found and draining (2) to reported (3),
\* which is final.
Phase == IF mpc = "done" THEN 3 ELSE IF is_some(found) THEN 2 ELSE 1

C10_ReportAfterWorkers ==
    [][/\ mpc' \in PostScope => (AllFinished' /\ is_some(found'))
       /\ mpc \in PostScope => UNCHANGED << shared, locks, pc, i, result, loaded >>
       /\ Phase' >= Phase
       /\ Phase' = 3 => Phase >= 2
       /\ mpc = "done" => UNCHANGED mainvars]_vars

C10_Witness ==
    /\ mpc = "done"
    /\ is_some(report)
    /\ unwrap(report).address = unwrap(found)[2]
    /\ Cardinality(Workers) >= 2

\* C11: a thread count of 0 is rejected before any worker is launched and
\* before any candidate is evaluated.  The code hands the 0 to rayon, which
\* then chooses the thread count itself, and the search runs.
C11_ZeroThreadsRejected ==
    args.threads = Some(0) =>
        /\ thread_id = 0
        /\ \A w \in Workers : pc[w] = "unspawned"
        /\ evaluated = 0

(* ------------------------- properties of the matcher -------------------- *)
\* the tag test, character by character
HasTag(a) == Len(a) > 4 /\ \A k \in 1..4 : a[k] = Tag[k]

\* s is found in a from position first on, character by character
FoundAt(a, first, s) ==
    /\ first >= 1
    /\ first + Len(s) - 1 <= Len(a)
    /\ \A k \in 1..Len(s) : a[first + k - 1] = s[k]

\* what the claims expect of the matcher for a prefix p and an optional suffix
Expected(a, p, suffix) ==
    /\ HasTag(a)
    /\ FoundAt(a, 5, p)
    /\ is_some(suffix) => FoundAt(a, Len(a) - Len(unwrap(suffix)) + 1, unwrap(suffix))

\* C12: the matcher fails closed: for an address that does not start with
\* bc1q, or of length 4 or less, it answers false whatever the patterns are.
C12_FailsClosed ==
    ~HasTag(probe.address) =>
        /\ is_some(probe.direct) => unwrap(probe.direct) = FALSE
        /\ is_some(probe.seen) => unwrap(probe.seen) = FALSE

C12_Witness ==
    /\ Len(probe.address) > 4
    /\ ~HasTag(probe.address)
    /\ args.pattern = <<>>
    /\ is_none(args.suffix)
    /\ probe.direct = Some(FALSE)

\* C13: for an address that passes the tag test the matcher answers true
\* exactly when the part after the tag starts with the prefix and, if a suffix
\* is given, the address ends with it; a suffix match alone gives false, and
\* without a suffix the answer is that of the prefix test.
C13_PrefixAndSuffix ==
    HasTag(probe.address) =>
        /\ is_some(probe.direct) =>
              unwrap(probe.direct) = Expected(probe.address, args.pattern, args.suffix)
        /\ is_some(probe.seen) =>
              unwrap(probe.seen) = Expected(probe.address, prefix_pattern, suffix_pattern)

C13_Witness ==
    /\ HasTag(probe.address)
    /\ is_some(args.suffix)
    /\ unwrap(args.suffix) # <<>>
    /\ ends_with(probe.address, unwrap(args.suffix))
    /\ ~FoundAt(probe.address, 5, args.pattern)
    /\ probe.direct = Some(FALSE)

\* the spellings of a string with its ASCII letters in upper and in lower case
ascii_uppercase(s) ==
    [k \in 1..Len(s) |->
        IF \E n \in 1..Len(LowerCase) : LowerCase[n] = s[k]
        THEN UpperCase[CHOOSE n \in 1..Len(LowerCase) : LowerCase[n] = s[k]]
        ELSE s[k]]

ascii_lowercase(s) ==
    [k \in 1..Len(s) |->
        IF \E n \in 1..Len(UpperCase) : UpperCase[n] = s[k]
        THEN LowerCase[CHOOSE n \in 1..Len(UpperCase) : UpperCase[n] = s[k]]
        ELSE s[k]]

\* the spellings of a string and of an optional string that differ in the
\* case of their ASCII letters only
Spellings(s) == { s, ascii_uppercase(s), ascii_lowercase(s) }
OptSpellings(o) == IF is_some(o) THEN { Some(x) : x \in Spellings(unwrap(o)) } ELSE { None }

\* C14 as claimed: the answer a worker gets does not change when the letter
\* case of the pattern, of the suffix or of the address changes.  The code
\* lower-cases the patterns only; the address is compared as it is.
C14_CaseInsensitive ==
    is_some(probe.seen) =>
        \A a \in Spellings(probe.address), p \in Spellings(args.pattern),
           x \in OptSpellings(args.suffix) :
            matcher_call(a, p, x) = unwrap(probe.seen)

\* C14 as amended: the answer a worker gets for an address does not change
\* when the case of the ASCII letters of the pattern or of the suffix changes.
C14_PatternCaseInsensitive ==
    is_some(probe.seen) =>
        \A p \in Spellings(args.pattern), x \in OptSpellings(args.suffix) :
            matcher_call(probe.address, p, x) = unwrap(probe.seen)

C14_Witness ==
    /\ args.pattern = <<"A","Z">>
    /\ args.suffix = Some(<<"Z">>)
    /\ probe.address = <<"b","c","1","q","a","z">>
    /\ probe.seen = Some(TRUE)

(* ---------------------------- guard discipline ------------------------- *)
\* the guards worker w holds
Held(w) ==
    (IF foundLock = w THEN {"found"} ELSE {})
        \cup (IF statsLock = w THEN {"stats"} ELSE {})
        \cup (IF lastPrintLock = w THEN {"last_stats_print"} ELSE {})

\* the positions at which a worker is about to call lock()
AcquirePoints == { "while", "publish", "stats", "last_print", "print", "tail" }

\* C15: no worker holds more than one of the three guards at a time, and no
\* worker is about to acquire one of them while it still holds another.
C15_OneGuardAtATime ==
    \A w \in Workers :
        /\ Cardinality(Held(w)) <= 1
        /\ pc[w] \in AcquirePoints => Held(w) = {}

\* the workers that were launched and have not left their closure
Unfinished == { w \in Workers : pc[w] \notin { "unspawned", "finished" } }

\* the owner of the mutex whose lock() worker w is about to call
Wanted(w) ==
    CASE pc[w] \in { "while", "publish", "tail" } -> foundLock
      [] pc[w] \in { "stats", "print" } -> statsLock
      [] pc[w] = "last_print" -> lastPrintLock
      [] OTHER -> Free

\* worker w is blocked in lock()
Waiting(w) == pc[w] \in AcquirePoints /\ Wanted(w) # Free

\* C16: deadlock freedom, there is no reachable state in which workers are
\* unfinished and every one of them is blocked waiting for a mutex.
C16_DeadlockFree == ~ (Unfinished # {} /\ \A w \in Unfinished : Waiting(w))

\* a worker is blocked on last_stats_print while its holder, itself about to
\* take the stats mutex, can go on
C16_Witness ==
    \E w1, w2 \in Workers :
        /\ pc[w1] = "last_print" /\ lastPrintLock = w2 /\ Waiting(w1)
        /\ pc[w2] = "print" /\ ~ Waiting(w2)

\* the positions of a worker outside every guard scope
Unguarded == { "unspawned", "while", "batch", "publish", "stats", "last_print", "finished" }

\* C17: no worker holds a guard while it generates or checks the candidates
\* of a batch; every guard a worker acquired is released before it goes back
\* to the loop condition and starts its next batch, so the holder of a mutex
\* is never a worker inside its batch.
C17_NoGuardInBatch ==
    /\ \A w \in Workers : pc[w] \in Unguarded => Held(w) = {}
    /\ \A w \in Workers : Waiting(w) => pc[Wanted(w)] # "batch"

\* a worker is in the middle of a batch, holding nothing, while another one
\* holds the found and last_stats_print guards
C17_Witness ==
    \E w1, w2 \in Workers :
        /\ pc[w1] = "batch" /\ i[w1] >= 1 /\ Held(w1) = {}
        /\ pc[w2] = "tail_check" /\ Held(w2) = { "found", "last_stats_print" }

(* ------------------------------ publishing ---------------------------- *)
\* C18: each worker attempts a publish at most once per run: the first
\* matching candidate of a batch ends the batch and is followed by one publish
\* attempt, after which the worker evaluates no further candidate and leaves
\* its loop at the next check of line 162.
C18_PublishOnce ==
    [][ \A w \in Workers :
            /\ published'[w] <= 1
            /\ (pc[w] = "batch" /\ is_some(result'[w])) => pc'[w] = "publish"
            /\ (pc[w] = "publish_write" /\ pc'[w] # "publish_write")
                    => published'[w] = published[w] + 1
            /\ published[w] >= 1
                    => /\ pc'[w] # "batch"
                       /\ i'[w] = i[w]
                       /\ (pc[w] = "tail_check" /\ pc'[w] # "tail_check")
                              => pc'[w] = "break"
                       /\ (pc[w] = "break" /\ pc'[w] # "break")
                              => pc'[w] = "finished"
      ]_vars

\* a worker has published after the first candidate of its batch, left the
\* batch with the rest unevaluated, and has gone through its exit check
C18_Witness ==
    \E w \in Workers :
        published[w] = 1 /\ i[w] < batch_size /\ pc[w] = "finished"

(* ---------------------------- stats emission -------------------------- *)
\* the workers between the interval test of line 156 and the end of line 158
InPrintSection ==
    { w \in Workers :
        pc[w] \in { "interval_test", "print", "print_write", "print_drop", "reset" } }

\* C19: stats emission is serialized by the last_stats_print guard: the
\* interval test, the emission and the reset are one critical section of the
\* guard's holder; a line is emitted only when at least the interval has
\* passed since the last reset, and the reset that follows an emission is done
\* before any other emission.
C19_StatsSerialized ==
    [][ /\ Cardinality(InPrintSection') <= 1
        /\ \A w \in InPrintSection' : lastPrintLock' = w
        /\ printed' > printed
              => /\ elapsed(last_stats_print, now) >= stats_interval
                 /\ \A w \in Workers : pc[w] \notin { "print_drop", "reset" }
                 /\ \E w \in Workers :
                        /\ pc[w] = "print_write" /\ pc'[w] = "print_drop"
                        /\ lastPrintLock = w /\ lastPrintLock' = w
        /\ \A w \in Workers :
              (pc[w] = "reset" /\ pc'[w] # "reset") => last_stats_print' = now
      ]_vars

\* a worker has emitted a line and not yet reset the timestamp, while another
\* one waits for the guard
C19_Witness ==
    \E w1, w2 \in Workers :
        /\ printed >= 1 /\ pc[w1] = "reset" /\ lastPrintLock = w1
        /\ pc[w2] = "last_print"
        /\ elapsed(last_stats_print, now) >= stats_interval

====
